---- MODULE Spec2Model ----
(***************************************************************************)
(* A model of trackpipe/pipeline.py: Params, Transforms, Windows, the      *)
(* assembly helpers and the run_pipe polling loop.                         *)
(*                                                                         *)
(* The collaborators the code calls are modelled by what they do:          *)
(*   - cv2 trackbars: a map (window name, label) -> position, clamped to   *)
(*     [0, max] when created, moved by the user between polls;             *)
(*   - cv2 windows: a map window name -> visible;                          *)
(*   - numpy buffers: None, the 0-d object array np.copy(None) yields, or  *)
(*     an image (a number below ImgMod);                                   *)
(*   - the user's Transform subclasses: a declared Param list, a draw      *)
(*     whose output is a function of its input and values and which may    *)
(*     raise, and a compute_values hook which may raise.                   *)
(***************************************************************************)
EXTENDS Integers, Sequences, FiniteSets, TLC

VARIABLES
    pc,         \* where run_pipe is: "start", "validate", "build", "initial",
                \* "running", "terminated", "config_error", "crashed"
    transforms, \* run_pipe's argument: the flat sequence of items
    img,        \* run_pipe's argument: the input buffer
    counter,    \* Window.counter
    windows,    \* run_pipe's local: the list of Windows
    trackbar,   \* cv2: (window name, label) -> slider position
    tbmax,      \* cv2: (window name, label) -> slider count
    visible,    \* cv2: window name -> the surface is shown
    shown,      \* cv2: window name -> the buffer last given to imshow
    orig,       \* run_pipe's local of the initial pass
    tick,       \* what the last step of run_pipe did (history)
    moved,      \* a slider was moved since the last poll (history)
    par,        \* a Param on its own (Param.__init__, Param.update_value)
    parDecl     \* the keyword arguments that Param was declared with

vars == <<pc, transforms, img, counter, windows, trackbar, tbmax, visible,
          shown, orig, tick, moved, par, parDecl>>

-----------------------------------------------------------------------------
(* Bounds *)

\* sliders of the modelled Transform classes run over 0..SliderMax
SliderMax == 1
\* images are the numbers 0..ImgMod-1
ImgMod == 3
\* longest flat sequence handed to _collect_windows in the assembly runs
MaxItems == 3
\* Param declarations of the Param runs draw min, default from -ParRange..ParRange
ParRange == 2
\* most Windows constructed in the runs of Window constructions
MaxWindows == 3

-----------------------------------------------------------------------------
(* Buffers *)

\* Python's None
None == [kind |-> "none", px |-> 0]
\* np.copy(None): a 0-d array of dtype object holding None
NoneArr == [kind |-> "nonearr", px |-> 0]
Image(n) == [kind |-> "img", px |-> n % ImgMod]
IsImage(b) == b.kind = "img"

\* np.copy(img), line 267 (guarded by `img is None`) and line 273 (unguarded)
NpCopy(b) == IF b.kind = "none" THEN NoneArr ELSE b

\* result.astype(np.uint8), line 56: None has no astype (AttributeError);
\* an object array holding None cannot be cast to uint8 (TypeError)
AstypeRaises(b) == ~IsImage(b)

-----------------------------------------------------------------------------
(* Param *)

\* the adjust callables of the modelled declarations
\*   "none": adjust=None      "even": lambda x: x if x % 2 == 0 else x + 1
\*   "dec": lambda x: x - 2
Adjusts == {"none", "even", "dec"}

ApplyAdjust(adjust, x) ==
    CASE adjust = "even" -> (IF x % 2 = 0 THEN x ELSE x + 1)
      [] adjust = "dec" -> x - 2
      [] OTHER -> x

Max(a, b) == IF a >= b THEN a ELSE b
Min(a, b) == IF a <= b THEN a ELSE b

\* Param.__init__
ParamInit(label, _max, _min, default, adjust) ==
    LET value == Max(_min, default)
    IN  [label |-> label, max |-> _max, min |-> _min, adjust |-> adjust,
         default |-> default,
         value |-> IF adjust # "none" THEN ApplyAdjust(adjust, value) ELSE value,
         dirty |-> TRUE,
         pos |-> value]

\* cv2.getTrackbarPos(label, win_name)
GetTrackbarPos(tb, label, win_name) ==
    IF <<win_name, label>> \in DOMAIN tb THEN tb[<<win_name, label>>] ELSE -1

\* Param.update_value, given the position the trackbar reports
UpdateValue(p, pos) ==
    LET adjusted == IF p.adjust # "none" THEN ApplyAdjust(p.adjust, pos) ELSE pos
    IN  [p EXCEPT !.dirty = (p.pos # pos),
                  !.pos = pos,
                  !.value = Max(adjusted, p.min)]

-----------------------------------------------------------------------------
(* Transform *)

\* The Transform subclasses of the modelled user program. decls are the
\* class-level Param(...) attributes in definition order; drawRaises says
\* that the subclass's draw can raise (a bad parameter combination),
\* hookRaises that its compute_values can.
Decl(attr, label, _max, _min, default, adjust) ==
    [attr |-> attr, label |-> label, max |-> _max, min |-> _min,
     default |-> default, adjust |-> adjust]

Classes ==
    [Blur   |-> [decls |-> <<Decl("k", "", SliderMax, 0, 1, "none")>>,
                 drawRaises |-> TRUE, hookRaises |-> FALSE, weight |-> 1],
     Thresh |-> [decls |-> <<Decl("t", "", SliderMax, 0, 0, "none")>>,
                 drawRaises |-> FALSE, hookRaises |-> FALSE, weight |-> 2],
     Canny  |-> [decls |-> <<Decl("lo", "k", SliderMax, 0, 1, "even")>>,
                 drawRaises |-> FALSE, hookRaises |-> TRUE, weight |-> 1],
     Range  |-> [decls |-> <<Decl("lo", "", SliderMax, 0, 0, "none"),
                             Decl("hi", "", SliderMax, 0, 1, "none")>>,
                 drawRaises |-> TRUE, hookRaises |-> FALSE, weight |-> 0],
     Gray   |-> [decls |-> <<>>,
                 drawRaises |-> FALSE, hookRaises |-> FALSE, weight |-> 1],
     Shift  |-> [decls |-> <<Decl("s", "", SliderMax, 0, 1, "dec")>>,
                 drawRaises |-> FALSE, hookRaises |-> FALSE, weight |-> 1],
     Wide   |-> [decls |-> <<Decl("w", "", SliderMax, 0, SliderMax + 1, "none")>>,
                 drawRaises |-> FALSE, hookRaises |-> FALSE, weight |-> 1]]

ClassNames == DOMAIN Classes

\* Transform._get_params: one fresh Param per declared Param, keyed by its
\* label (the attribute name when no label is given); a dict, so a label set
\* twice keeps its first place and its last value
RECURSIVE GetParamsFrom(_, _, _)
GetParamsFrom(decls, i, params) ==
    IF i > Len(decls) THEN params
    ELSE LET inst == decls[i]
             label == IF inst.label # "" THEN inst.label ELSE inst.attr
             new_inst == ParamInit(label, inst.max, inst.min, inst.default,
                                   inst.adjust)
             at == {j \in 1..Len(params) : params[j].label = label}
         IN  GetParamsFrom(decls, i + 1,
                 IF at = {} THEN Append(params, new_inst)
                 ELSE [j \in 1..Len(params) |->
                          IF j \in at THEN new_inst ELSE params[j]])

GetParams(cls) == GetParamsFrom(Classes[cls].decls, 1, <<>>)

\* the values of a Transform's Params, in label order
ValuesOf(t) == [i \in 1..Len(t.params) |-> t.params[i].value]

\* Transform.__init__; drawn_with is history: the Param values that the last
\* call of draw read (none yet)
TransformInit(cls) ==
    [kind |-> "Transform", cls |-> cls, last_output |-> None,
     params |-> GetParams(cls), drawn_with |-> <<>>]

\* Transform.dirty with all() in place of any()
TransformDirtyAll(t) == \A i \in 1..Len(t.params) : t.params[i].dirty

\* Transform.dirty
TransformDirty(t) == \E i \in 1..Len(t.params) : t.params[i].dirty

\* Transform.update_params
UpdateParams(t, win_name, tb) ==
    IF Len(t.params) = 0 THEN t
    ELSE [t EXCEPT !.params =
             [i \in 1..Len(t.params) |->
                 UpdateValue(t.params[i],
                             GetTrackbarPos(tb, t.params[i].label, win_name))]]

\* the subclass's draw, when it does not raise: a function of the class, the
\* input buffer and the Param values (a buffer that is no image counts as 0:
\* the transform acquires its own input)
RECURSIVE SumValues(_, _)
SumValues(params, i) ==
    IF i > Len(params) THEN 0 ELSE params[i].value + SumValues(params, i + 1)

UserDraw(t, buf) ==
    Image((IF IsImage(buf) THEN buf.px ELSE 0) + Classes[t.cls].weight
          + SumValues(t.params, 1) + 2 * ImgMod)

\* what a render of one Transform may meet: "ok", "draw" (draw raises),
\* "hook" (compute_values raises)
FatesOf(cls) ==
    {"ok"} \cup (IF Classes[cls].drawRaises THEN {"draw"} ELSE {})
           \cup (IF Classes[cls].hookRaises THEN {"hook"} ELSE {})

\* lines 126-131 of Transform._draw: store the result, clear the dirty flags
StoreAndClean(t, result) ==
    [t |-> [t EXCEPT !.last_output = result,
                     !.drawn_with = ValuesOf(t),
                     !.params = [i \in 1..Len(t.params) |->
                                    [t.params[i] EXCEPT !.dirty = FALSE]]],
     result |-> result, exc |-> "none"]

\* Transform._draw with the clearing of the dirty flags moved into the try
TransformDrawCleanInTry(t, buf, fate) ==
    IF fate = "hook" THEN [t |-> t, result |-> buf, exc |-> "hook"]
    ELSE IF fate = "draw"
    THEN [t |-> [t EXCEPT !.last_output = buf], result |-> buf, exc |-> "none"]
    ELSE StoreAndClean(t, UserDraw(t, buf))

\* Transform._draw: [t: the Transform afterwards, result, exc]
TransformDraw(t, buf, fate) ==
    IF fate = "hook"
    THEN \* line 120: compute_values is called outside the try
         [t |-> t, result |-> buf, exc |-> "hook"]
    ELSE \* lines 121-125: the input when draw raises, else what draw returns
         StoreAndClean(t, IF fate = "draw" THEN buf ELSE UserDraw(t, buf))

-----------------------------------------------------------------------------
(* Window *)

\* f'Step {self.counter}'
StepName(n) ==
    CASE n = 1 -> "Step 1" [] n = 2 -> "Step 2" [] n = 3 -> "Step 3"
      [] n = 4 -> "Step 4" [] n = 5 -> "Step 5" [] OTHER -> "Step N"

\* Window.__init__ with `Window.counter += 1` after the if/else, for every Window
WindowInitCountsAll(ts, name, cnt) ==
    [win |-> [kind |-> "Window", name |-> IF name = "" THEN StepName(cnt) ELSE name,
              transforms |-> ts, last_output |-> None, fed |-> None],
     counter |-> cnt + 1]

\* Window.__init__: [win, counter]; fed is history: the buffer that the draw
\* which set last_output was called with (none yet)
WindowInit(ts, name, cnt) ==
    [win |-> [kind |-> "Window", name |-> IF name = "" THEN StepName(cnt) ELSE name,
              transforms |-> ts, last_output |-> None, fed |-> None],
     counter |-> IF name = "" THEN cnt + 1 ELSE cnt]

\* Window.dirty: [win: the Window afterwards, idx: the 0-based index or -1]
RECURSIVE WindowDirtyFrom(_, _, _)
WindowDirtyFrom(win, i, tb) ==
    IF i > Len(win.transforms) THEN [win |-> win, idx |-> -1]
    ELSE LET t == UpdateParams(win.transforms[i], win.name, tb)
             w == [win EXCEPT !.transforms[i] = t]
         IN  IF TransformDirty(t) THEN [win |-> w, idx |-> i - 1]
             ELSE WindowDirtyFrom(w, i + 1, tb)

WindowDirty(win, tb) == WindowDirtyFrom(win, 1, tb)

\* a pass's history: what was rendered, first to last
Logged(entry, rest) == [rest EXCEPT !.log = <<entry>> \o rest.log]

\* the loop of Window.draw, lines 53-54: [ts, result, exc, log]
RECURSIVE DrawTransforms(_, _, _, _)
RECURSIVE DrawTransformsAfter(_, _, _, _, _)
DrawTransforms(ts, i, result, fate) ==
    IF i > Len(ts) THEN [ts |-> ts, result |-> result, exc |-> "none", log |-> <<>>]
    ELSE DrawTransformsAfter(ts, i, result, fate,
                             TransformDraw(ts[i], result, fate[i]))

\* history of one Transform._draw: the Transform's 0-based index, its input
\* and output, what it met, and its Params' dirty flags when it was called
RenderEntry(ts, i, result, fate, r) ==
    [i |-> i - 1, cls |-> ts[i].cls, input |-> result, output |-> r.result,
     fate |-> fate[i],
     was |-> [p \in 1..Len(ts[i].params) |-> ts[i].params[p].dirty]]

\* r is what ts[i]._draw(result) did
DrawTransformsAfter(ts, i, result, fate, r) ==
    IF r.exc # "none"
    THEN [ts |-> ts, result |-> result, exc |-> r.exc,
          log |-> <<RenderEntry(ts, i, result, fate, r)>>]
    ELSE Logged(RenderEntry(ts, i, result, fate, r),
                DrawTransforms([ts EXCEPT ![i] = r.t], i + 1, r.result, fate))

\* lines 55-57 of Window.draw, d being what the loop did
WindowDrawAfter(win, buf, d) ==
    IF d.exc # "none"
    THEN [win |-> [win EXCEPT !.transforms = d.ts], result |-> buf,
          exc |-> d.exc, log |-> d.log]
    ELSE [win |-> [win EXCEPT !.transforms = d.ts, !.last_output = d.result,
                              !.fed = buf],
          result |-> d.result,
          exc |-> IF AstypeRaises(d.result) THEN "astype" ELSE "none",
          log |-> d.log]

\* Window.draw: [win, result, exc, log]; exc is "none", "hook" (a Transform's
\* compute_values raised) or "astype" (line 56 raised)
WindowDraw(win, buf, fate) ==
    WindowDrawAfter(win, buf, DrawTransforms(win.transforms, 1, buf, fate))

-----------------------------------------------------------------------------
(* Assembly *)

IsWindow(x) == x.kind = "Window"
IsTransform(x) == x.kind = "Transform"

\* _check_group: TRUE when it raises TypeError
CheckGroupRaises(items) == \E i \in 1..Len(items) : ~IsTransform(items[i])

\* _create_initial_groups: [groups, non_groups, exc]
RECURSIVE CreateInitialGroupsFrom(_, _, _, _)
CreateInitialGroupsFrom(ts, idx, groups, non_groups) ==
    IF idx > Len(ts)
    THEN [groups |-> groups, non_groups |-> non_groups, exc |-> "none"]
    ELSE LET t == ts[idx]
         IN  IF IsWindow(t)
             THEN IF CheckGroupRaises(t.transforms)
                  THEN [groups |-> groups, non_groups |-> non_groups,
                        exc |-> "TypeError"]
                  ELSE CreateInitialGroupsFrom(ts, idx + 1, Append(groups, t),
                                               non_groups)
             ELSE IF ~IsTransform(t)
             THEN [groups |-> groups, non_groups |-> non_groups,
                   exc |-> "ValueError"]
             ELSE CreateInitialGroupsFrom(ts, idx + 1, groups,
                                          Append(non_groups, t))

CreateInitialGroups(ts) == CreateInitialGroupsFrom(ts, 1, <<>>, <<>>)

\* _collect_windows without the test for a mixture, line 218
CollectWindowsNoMixTest(ts, cnt) ==
    LET g == CreateInitialGroups(ts)
    IN  IF g.exc # "none"
        THEN [windows |-> <<>>, exc |-> g.exc, counter |-> cnt]
        ELSE IF Len(g.non_groups) = Len(ts)
        THEN LET w == WindowInit(g.non_groups, "", cnt)
             IN  [windows |-> <<w.win>>, exc |-> "none", counter |-> w.counter]
        ELSE [windows |-> g.groups, exc |-> "none", counter |-> cnt]

\* _collect_windows with line 216 testing `ungrouped and not grouped`
CollectWindowsGroupsFirst(ts, cnt) ==
    LET g == CreateInitialGroups(ts)
    IN  IF g.exc # "none"
        THEN [windows |-> <<>>, exc |-> g.exc, counter |-> cnt]
        ELSE IF Len(g.non_groups) > 0 /\ Len(g.groups) = 0
        THEN LET w == WindowInit(g.non_groups, "", cnt)
             IN  [windows |-> <<w.win>>, exc |-> "none", counter |-> w.counter]
        ELSE IF Len(g.groups) > 0 /\ Len(g.non_groups) > 0
        THEN [windows |-> <<>>, exc |-> "ValueError", counter |-> cnt]
        ELSE [windows |-> g.groups, exc |-> "none", counter |-> cnt]

\* _collect_windows: [windows, exc, counter]
CollectWindows(ts, cnt) ==
    LET g == CreateInitialGroups(ts)
    IN  IF g.exc # "none"
        THEN [windows |-> <<>>, exc |-> g.exc, counter |-> cnt]
        ELSE IF Len(g.non_groups) = Len(ts)
        THEN LET w == WindowInit(g.non_groups, "", cnt)
             IN  [windows |-> <<w.win>>, exc |-> "none", counter |-> w.counter]
        ELSE IF Len(g.groups) > 0 /\ Len(g.non_groups) > 0
        THEN [windows |-> <<>>, exc |-> "ValueError", counter |-> cnt]
        ELSE [windows |-> g.groups, exc |-> "none", counter |-> cnt]

\* the labels of a Window's Params in scan order (lines 231-232)
RECURSIVE LabelsOf(_, _)
LabelsOf(ts, i) ==
    IF i > Len(ts) THEN <<>>
    ELSE [j \in 1..Len(ts[i].params) |->
             [label |-> ts[i].params[j].label, t |-> i - 1, cls |-> ts[i].cls]]
         \o LabelsOf(ts, i + 1)

\* the scan of one Window, lines 230-241: the first label met twice, as
\* [found, label, t, first]
FirstRepeat(labels) ==
    LET rep == {j \in 1..Len(labels) :
                   \E i \in 1..(j - 1) : labels[i].label = labels[j].label}
    IN  IF rep = {} THEN [found |-> FALSE, label |-> "", t |-> -1]
        ELSE LET j == CHOOSE j \in rep : \A m \in rep : j <= m
             IN  [found |-> TRUE, label |-> labels[j].label, t |-> labels[j].t]

\* all the Windows' labels in scan order, as if one Window held them
RECURSIVE AllLabels(_, _)
AllLabels(wins, w) ==
    IF w > Len(wins) THEN <<>>
    ELSE LabelsOf(wins[w].transforms, 1) \o AllLabels(wins, w + 1)

\* check_dup_win_labels with `params = {}` set once, before the loop of line 229
CheckDupAcrossWindows(wins) ==
    IF FirstRepeat(AllLabels(wins, 1)).found
    THEN [exc |-> "ValueError", win |-> 0,
          label |-> FirstRepeat(AllLabels(wins, 1)).label]
    ELSE [exc |-> "none", win |-> -1, label |-> ""]

\* check_dup_win_labels: [exc, win, label]: the ValueError it raises, with
\* the 0-based index of the Window and the label it names
RECURSIVE CheckDupWinLabelsFrom(_, _)
CheckDupWinLabelsFrom(wins, w) ==
    IF w > Len(wins) THEN [exc |-> "none", win |-> -1, label |-> ""]
    ELSE LET r == FirstRepeat(LabelsOf(wins[w].transforms, 1))
         IN  IF r.found
             THEN [exc |-> "ValueError", win |-> w - 1, label |-> r.label]
             ELSE CheckDupWinLabelsFrom(wins, w + 1)

CheckDupWinLabels(wins) == CheckDupWinLabelsFrom(wins, 1)

-----------------------------------------------------------------------------
(* The caller's program: the items it builds before calling run_pipe *)

\* item descriptions: a Window(...) call with its name argument and the
\* members of its list, or a bare member; a member is a Transform subclass
\* to instantiate, or "Other" (an object that is no Transform)
W(name, members) == [window |-> TRUE, name |-> name, members |-> members]
T(member) == [window |-> FALSE, name |-> "", members |-> <<member>>]

Other == [kind |-> "Other"]
MakeMember(m) == IF m \in ClassNames THEN TransformInit(m) ELSE Other

\* the items are constructed left to right, starting from Window.counter = cnt
RECURSIVE MakeItems(_, _, _, _)
MakeItems(descr, i, items, cnt) ==
    IF i > Len(descr) THEN [items |-> items, counter |-> cnt]
    ELSE LET d == descr[i]
             members == [j \in 1..Len(d.members) |-> MakeMember(d.members[j])]
         IN  IF d.window
             THEN LET w == WindowInit(members, d.name, cnt)
                  IN  MakeItems(descr, i + 1, Append(items, w.win), w.counter)
             ELSE MakeItems(descr, i + 1, Append(items, members[1]), cnt)

\* the pipelines of the engine runs
Pipelines ==
    { <<W("", <<"Blur", "Thresh">>), W("", <<"Canny">>)>>,
      <<W("a", <<"Blur">>), W("", <<"Canny">>), W("out", <<"Gray">>)>>,
      <<T("Range"), T("Gray")>>,
      <<W("", <<"Blur">>), T("Thresh")>>,
      <<W("", <<"Blur", "Canny">>)>>,
      <<W("", <<"Thresh">>), W("", <<"Blur", "Other">>)>>,
      <<T("Blur"), T("Other")>>,
      <<T("Shift")>>,
      <<T("Wide"), T("Thresh")>> }

\* the items of the assembly runs: every sequence of at most MaxItems of these
ItemDescrs ==
    { T("Blur"), T("Canny"), T("Gray"), T("Other"),
      W("", <<"Blur">>), W("", <<"Blur", "Canny">>), W("win", <<"Canny", "Thresh">>),
      W("", <<"Gray", "Other">>), W("", <<>>),
      W("", <<"Thresh", "Canny", "Blur", "Thresh">>) }

SeqsUpTo(S, n) == UNION {[1..m -> S] : m \in 0..n}

-----------------------------------------------------------------------------
(* cv2 *)

EmptyMap == [k \in {} |-> 0]

Clamp(x, lo, hi) == Max(lo, Min(x, hi))

\* the flat list of a Window's Params, lines 262-263
RECURSIVE ParamsOf(_, _)
ParamsOf(ts, i) ==
    IF i > Len(ts) THEN <<>> ELSE ts[i].params \o ParamsOf(ts, i + 1)

\* lines 262-264 with cv2.createTrackbar(k, window.name, 0, v.max, nothing)
RECURSIVE CreateTrackbarsAtZero(_, _, _, _)
CreateTrackbarsAtZero(tb, name, params, j) ==
    IF j > Len(params) THEN tb
    ELSE CreateTrackbarsAtZero(
             [pos |-> (<<name, params[j].label>> :> 0) @@ tb.pos,
              max |-> (<<name, params[j].label>> :> params[j].max) @@ tb.max],
             name, params, j + 1)

\* cv2.createTrackbar(k, window.name, v._pos, v.max, nothing) for params[j..]:
\* the slider holds a position within [0, max]
RECURSIVE CreateTrackbars(_, _, _, _)
CreateTrackbars(tb, name, params, j) ==
    IF j > Len(params) THEN tb
    ELSE CreateTrackbars(
             [pos |-> (<<name, params[j].label>> :> Clamp(params[j].pos, 0, params[j].max))
                      @@ tb.pos,
              max |-> (<<name, params[j].label>> :> params[j].max) @@ tb.max],
             name, params, j + 1)

\* lines 259-264: [pos, max, visible]
RECURSIVE BuildFrom(_, _, _)
BuildFrom(wins, w, cv) ==
    IF w > Len(wins) THEN cv
    ELSE LET tb == CreateTrackbars([pos |-> cv.pos, max |-> cv.max], wins[w].name,
                                   ParamsOf(wins[w].transforms, 1), 1)
         IN  BuildFrom(wins, w + 1,
                 [pos |-> tb.pos, max |-> tb.max,
                  visible |-> (wins[w].name :> TRUE) @@ cv.visible])

-----------------------------------------------------------------------------
(* run_pipe *)

NoTick == [kind |-> "none", dirty |-> <<>>, offset |-> -1, log |-> <<>>,
           exc |-> "none", at |-> <<>>]

NoPar == ParamInit("", 0, 0, 0, "none")
NoDecl == [max |-> 0, min |-> 0, default |-> 0, adjust |-> "none"]

\* what the renders of one pass may meet: a fate for each Transform of each
\* Window, as a function on <<w, i>> (both 1-based)
Slots(wins) ==
    {<<w, i>> : w \in 1..Len(wins), i \in 1..3} \cap
    UNION {{<<w, i>> : i \in 1..Len(wins[w].transforms)} : w \in 1..Len(wins)}

Fates(wins) ==
    {f \in [Slots(wins) -> {"ok", "draw", "hook"}] :
        \A s \in DOMAIN f : f[s] \in FatesOf(wins[s[1]].transforms[s[2]].cls)}

\* `for window in windows[k-1:]: result = window.draw(result)`, lines 268-269
\* and 291-292: [wins, result, exc, log, shown]
RECURSIVE DrawWindows(_, _, _, _, _)
RECURSIVE DrawWindowsAfter(_, _, _, _, _, _)
DrawWindows(wins, k, result, fate, sh) ==
    IF k > Len(wins)
    THEN [wins |-> wins, result |-> result, exc |-> "none", log |-> <<>>,
          shown |-> sh]
    ELSE DrawWindowsAfter(wins, k, result, fate, sh,
             WindowDraw(wins[k], result,
                        [i \in 1..Len(wins[k].transforms) |-> fate[<<k, i>>]]))

\* the loop of lines 268-269 and 291-292 without `result =`: every Window is
\* drawn on the buffer the first one was given
DrawWindowsSameInput(wins, k, result, fate, sh, r) ==
    IF r.exc # "none"
    THEN [wins |-> [wins EXCEPT ![k] = r.win], result |-> result, exc |-> r.exc,
          log |-> <<[w |-> k - 1, input |-> result, output |-> r.result,
                     exc |-> r.exc, trans |-> r.log]>>,
          shown |-> sh]
    ELSE Logged([w |-> k - 1, input |-> result, output |-> r.result,
                 exc |-> r.exc, trans |-> r.log],
                DrawWindows([wins EXCEPT ![k] = r.win], k + 1, result, fate,
                            (wins[k].name :> r.result) @@ sh))

\* r is what wins[k].draw(result) did
DrawWindowsAfter(wins, k, result, fate, sh, r) ==
    IF r.exc # "none"
    THEN [wins |-> [wins EXCEPT ![k] = r.win], result |-> result, exc |-> r.exc,
          log |-> <<[w |-> k - 1, input |-> result, output |-> r.result,
                     exc |-> r.exc, trans |-> r.log]>>,
          shown |-> sh]
    ELSE Logged([w |-> k - 1, input |-> result, output |-> r.result,
                 exc |-> r.exc, trans |-> r.log],
                DrawWindows([wins EXCEPT ![k] = r.win], k + 1, r.result, fate,
                            (wins[k].name :> r.result) @@ sh))

\* line 255
Collect ==
    /\ pc = "start"
    /\ LET c == CollectWindows(transforms, counter)
       IN  /\ windows' = c.windows
           /\ counter' = c.counter
           /\ pc' = IF c.exc = "none" THEN "validate" ELSE "config_error"
           /\ tick' = [NoTick EXCEPT !.kind = "collect", !.exc = c.exc]
    /\ UNCHANGED <<transforms, img, trackbar, tbmax, visible, shown, orig, moved,
                   par, parDecl>>

\* line 256
Validate ==
    /\ pc = "validate"
    /\ LET c == CheckDupWinLabels(windows)
       IN  /\ pc' = IF c.exc = "none" THEN "build" ELSE "config_error"
           /\ tick' = [NoTick EXCEPT !.kind = "validate", !.exc = c.exc,
                                     !.at = <<c.win, c.label>>]
    /\ UNCHANGED <<transforms, img, counter, windows, trackbar, tbmax, visible,
                   shown, orig, moved, par, parDecl>>

\* lines 259-264
Build ==
    /\ pc = "build"
    /\ LET cv == BuildFrom(windows, 1,
                     [pos |-> trackbar, max |-> tbmax, visible |-> visible])
       IN  /\ trackbar' = cv.pos
           /\ tbmax' = cv.max
           /\ visible' = cv.visible
    /\ pc' = "initial"
    /\ tick' = [NoTick EXCEPT !.kind = "build"]
    /\ UNCHANGED <<transforms, img, counter, windows, shown, orig, moved, par, parDecl>>

\* lines 266-269
InitialPass ==
    /\ pc = "initial"
    /\ \E fate \in Fates(windows) :
         \E r \in {DrawWindows(windows, 1,
                               IF img = None THEN None ELSE NpCopy(img),
                               fate, shown)} :
             /\ windows' = r.wins
             /\ shown' = r.shown
             /\ orig' = r.result
             /\ pc' = IF r.exc = "none" THEN "running" ELSE "crashed"
             /\ tick' = [NoTick EXCEPT !.kind = "initial", !.offset = 0,
                                       !.log = r.log, !.exc = r.exc]
    /\ UNCHANGED <<transforms, img, counter, trackbar, tbmax, visible, moved,
                   par, parDecl>>

\* cv2.destroyAllWindows(), line 294
Destroy ==
    /\ trackbar' = EmptyMap
    /\ tbmax' = EmptyMap
    /\ visible' = [n \in DOMAIN visible |-> FALSE]

\* lines 275-277: the poll returns the escape key
TickEscape ==
    /\ pc = "running"
    /\ pc' = "terminated"
    /\ tick' = [NoTick EXCEPT !.kind = "escape"]
    /\ Destroy
    /\ UNCHANGED <<transforms, img, counter, windows, shown, orig, moved, par, parDecl>>

\* lines 280-282: no window is visible any more
TickClosed ==
    /\ pc = "running"
    /\ \A n \in DOMAIN visible : ~visible[n]
    /\ pc' = "terminated"
    /\ tick' = [NoTick EXCEPT !.kind = "closed"]
    /\ Destroy
    /\ UNCHANGED <<transforms, img, counter, windows, shown, orig, moved, par, parDecl>>

\* line 285: every Window's dirty, in order: [wins, dirty]
PollDirty(wins, tb) ==
    LET d == [w \in 1..Len(wins) |-> WindowDirty(wins[w], tb)]
    IN  [wins |-> [w \in 1..Len(wins) |-> d[w].win],
         dirty |-> [w \in 1..Len(wins) |-> d[w].idx]]

\* np.argmax(dirty >= 0), line 289 (0-based)
Offset(dirty) ==
    IF \A w \in 1..Len(dirty) : dirty[w] < 0 THEN 0
    ELSE (CHOOSE w \in 1..Len(dirty) :
              dirty[w] >= 0 /\ \A v \in 1..(w - 1) : dirty[v] < 0) - 1

\* lines 273-292 of an iteration that does not break
TickPoll ==
    /\ pc = "running"
    /\ \E n \in DOMAIN visible : visible[n]
    /\ \E d \in {PollDirty(windows, trackbar)} :
           IF \A w \in 1..Len(d.dirty) : d.dirty[w] = -1
           THEN /\ windows' = d.wins
                /\ tick' = [NoTick EXCEPT !.kind = "clean", !.dirty = d.dirty]
                /\ UNCHANGED <<pc, shown>>
           ELSE \E fate \in Fates(windows), offset \in {Offset(d.dirty)} :
                \E r \in {DrawWindows(d.wins, offset + 1,
                                      IF offset = 0 THEN NpCopy(img)
                                      ELSE d.wins[offset].last_output,
                                      fate, shown)} :
                      /\ windows' = r.wins
                      /\ shown' = r.shown
                      /\ pc' = IF r.exc = "none" THEN "running" ELSE "crashed"
                      /\ tick' = [NoTick EXCEPT !.kind = "render",
                                     !.dirty = d.dirty, !.offset = offset,
                                     !.log = r.log, !.exc = r.exc]
    /\ moved' = FALSE
    /\ UNCHANGED <<transforms, img, counter, trackbar, tbmax, visible, orig, par,
                   parDecl>>

\* the user drags a slider of a visible window (seen at the next poll)
MoveSlider ==
    /\ pc = "running"
    /\ \E k \in DOMAIN trackbar : \E v \in 0..tbmax[k] :
         /\ k[1] \in DOMAIN visible /\ visible[k[1]]
         /\ v # trackbar[k]
         /\ trackbar' = [trackbar EXCEPT ![k] = v]
    /\ moved' = TRUE
    /\ UNCHANGED <<pc, transforms, img, counter, windows, tbmax, visible, shown,
                   orig, tick, par, parDecl>>

\* the user closes a window
CloseWindow ==
    /\ pc = "running"
    /\ \E n \in DOMAIN visible :
         /\ visible[n]
         /\ visible' = [visible EXCEPT ![n] = FALSE]
    /\ UNCHANGED <<pc, transforms, img, counter, windows, trackbar, tbmax, shown,
                   orig, tick, moved, par, parDecl>>

\* the state before run_pipe is called, but for its arguments
Fresh ==
    /\ windows = <<>>
    /\ trackbar = EmptyMap
    /\ tbmax = EmptyMap
    /\ visible = EmptyMap
    /\ shown = EmptyMap
    /\ orig = None
    /\ tick = NoTick
    /\ moved = FALSE

Init ==
    /\ pc = "start"
    /\ \E descr \in Pipelines :
         \E m \in {MakeItems(descr, 1, <<>>, 1)} :
             transforms = m.items /\ counter = m.counter
    /\ img \in {None, Image(0)}
    /\ Fresh
    /\ par = NoPar
    /\ parDecl = NoDecl

Next ==
    \/ Collect
    \/ Validate
    \/ Build
    \/ InitialPass
    \/ TickEscape
    \/ TickClosed
    \/ TickPoll
    \/ MoveSlider
    \/ CloseWindow

Spec == Init /\ [][Next]_vars

-----------------------------------------------------------------------------
(* Assembly on its own: _collect_windows and check_dup_win_labels applied   *)
(* to every flat sequence of at most MaxItems items                         *)

InitAssembly ==
    /\ pc = "start"
    /\ \E descr \in SeqsUpTo(ItemDescrs, MaxItems) :
         \E m \in {MakeItems(descr, 1, <<>>, 1)} :
             transforms = m.items /\ counter = m.counter
    /\ img = None
    /\ Fresh
    /\ par = NoPar
    /\ parDecl = NoDecl

NextAssembly ==
    \/ Collect
    \/ Validate
    \/ Build

SpecAssembly == InitAssembly /\ [][NextAssembly]_vars

-----------------------------------------------------------------------------
(* A Param on its own: constructed from a declaration, then synchronized    *)
(* with whatever positions the trackbar reports                             *)

\* Param(_max=.., _min=.., default=.., adjust=..)
ParamConstruct ==
    /\ pc = "par_new"
    /\ par' = ParamInit("p", parDecl.max, parDecl.min, parDecl.default,
                        parDecl.adjust)
    /\ pc' = "par_ready"
    /\ UNCHANGED <<transforms, img, counter, windows, trackbar, tbmax, visible,
                   shown, orig, tick, moved, parDecl>>

\* p.update_value(win_name), the trackbar reporting pos
ParamSynchronize ==
    /\ pc = "par_ready"
    /\ \E pos \in (-ParRange)..ParRange : par' = UpdateValue(par, pos)
    /\ UNCHANGED <<pc, transforms, img, counter, windows, trackbar, tbmax,
                   visible, shown, orig, tick, moved, parDecl>>

InitParam ==
    /\ pc = "par_new"
    /\ parDecl \in [max : {ParRange}, min : (-ParRange)..ParRange,
                    default : (-ParRange)..ParRange, adjust : Adjusts]
    /\ par = NoPar
    /\ transforms = <<>>
    /\ counter = 1
    /\ img = None
    /\ Fresh

NextParam ==
    \/ ParamConstruct
    \/ ParamSynchronize

SpecParam == InitParam /\ [][NextParam]_vars

-----------------------------------------------------------------------------
(* Window constructions on their own: Window(ts) and Window(ts, name=..)    *)
(* calls in any order within one process                                    *)

\* the name arguments of the calls: none (""), or a name of the caller's
WindowNames == {"", "a", "b", "Step 2"}

\* the lists the Windows are constructed with
MemberLists == {<<>>, <<"Gray">>}

\* Window(members) or Window(members, name); tick.at records the name
\* arguments of the calls so far
WindowConstruct ==
    /\ pc = "win_new"
    /\ Len(windows) < MaxWindows
    /\ \E name \in WindowNames, members \in MemberLists :
         \E w \in {WindowInit([j \in 1..Len(members) |-> MakeMember(members[j])],
                              name, counter)} :
             /\ windows' = Append(windows, w.win)
             /\ counter' = w.counter
             /\ tick' = [tick EXCEPT !.kind = "construct",
                                     !.at = Append(tick.at, name)]
    /\ UNCHANGED <<pc, transforms, img, trackbar, tbmax, visible, shown, orig,
                   moved, par, parDecl>>

InitWindows ==
    /\ pc = "win_new"
    /\ transforms = <<>>
    /\ counter = 1
    /\ img = None
    /\ Fresh
    /\ par = NoPar
    /\ parDecl = NoDecl

NextWindows == WindowConstruct

SpecWindows == InitWindows /\ [][NextWindows]_vars

-----------------------------------------------------------------------------
(* Properties of the render passes *)

\* the last step of run_pipe was a render pass (the initial one or a tick's)
Pass == tick.kind \in {"initial", "render"}

\* the Transform renders of the last pass: <<j, m>> is the m-th Transform
\* render of the pass's j-th Window render
Renders ==
    UNION {{<<j, m>> : m \in 1..Len(tick.log[j].trans)} : j \in 1..Len(tick.log)}

\* the Transform that render <<j, m>> was of, as it is now
RenderedTransform(r) ==
    windows[tick.log[r[1]].w + 1].transforms[tick.log[r[1]].trans[r[2]].i + 1]

\* C1 (minimal recompute): in a Running tick whose first Window reporting a
\* dirty index is Window k, exactly Windows k..N-1 are rendered, in order, each
\* render completing and fed the previous one's output, Window k fed
\* windows[k-1].last_output when k > 0; Windows 0..k-1 and their Transforms keep
\* their last_output.
C1_MinimalRecompute ==
    [][(pc = "running" /\ tick'.kind = "render") =>
        LET k == tick'.offset
            N == Len(windows)
        IN  /\ tick'.dirty[k + 1] >= 0
            /\ \A w \in 1..k : tick'.dirty[w] = -1
            /\ Len(tick'.log) = N - k
            /\ \A j \in 1..Len(tick'.log) :
                 /\ tick'.log[j].w = k + j - 1
                 /\ tick'.log[j].exc = "none"
                 /\ Len(tick'.log[j].trans) = Len(windows[k + j].transforms)
                 /\ j > 1 => tick'.log[j].input = tick'.log[j - 1].output
            /\ k > 0 => tick'.log[1].input = windows[k].last_output
            /\ \A w \in 1..k :
                 /\ windows'[w].last_output = windows[w].last_output
                 /\ \A i \in 1..Len(windows[w].transforms) :
                      windows'[w].transforms[i].last_output
                          = windows[w].transforms[i].last_output
      ]_vars

\* C2 (idempotence): a Running tick that follows a Running tick with no
\* slider moved in between finds every Window clean (-1), renders nothing and
\* leaves every Window's and Transform's last_output as it was.
C2_Idempotence ==
    [][(/\ pc = "running" /\ tick.kind \in {"clean", "render"} /\ ~moved
        /\ tick'.kind \in {"clean", "render"} /\ ~moved'
        /\ trackbar' = trackbar /\ visible' = visible) =>
        /\ tick'.kind = "clean"
        /\ \A w \in 1..Len(tick'.dirty) : tick'.dirty[w] = -1
        /\ tick'.log = <<>>
        /\ \A w \in 1..Len(windows) :
             /\ windows'[w].last_output = windows[w].last_output
             /\ \A i \in 1..Len(windows[w].transforms) :
                  windows'[w].transforms[i].last_output
                      = windows[w].transforms[i].last_output
      ]_vars

\* C3 (render-failure isolation): when a Transform's draw raises during a pass,
\* its output and last_output are the input it was given, every later Transform
\* of its Window is rendered, and every later Window is rendered in that pass.
C3_RenderFailureIsolation ==
    Pass =>
      \A r \in Renders :
        LET j == r[1]
            e == tick.log[r[1]].trans[r[2]]
        IN  e.fate = "draw" =>
              /\ e.output = e.input
              /\ RenderedTransform(r).last_output = e.input
              /\ Len(tick.log[j].trans)
                     = Len(windows[tick.log[j].w + 1].transforms)
              /\ \A m \in (r[2] + 1)..Len(tick.log[j].trans) :
                     tick.log[j].trans[m].fate # "hook"
              /\ Len(tick.log) = Len(windows) - tick.offset
              /\ \A j2 \in (j + 1)..Len(tick.log) : tick.log[j2].exc = "none"

\* C4 (render errors are never fatal): once validation has passed, run_pipe
\* leaves the initial pass and the loop only by a tick that saw the escape key
\* or no visible window.
C4_RenderErrorsNeverFatal ==
    [][(pc \in {"initial", "running"} /\ pc' \notin {"initial", "running"}) =>
        (pc' = "terminated" /\ tick'.kind \in {"escape", "closed"})]_vars

\* C5 (a raising compute_values is swallowed like a raising draw): the render
\* returns its input, stores it as last_output, clears the dirty flags, and
\* nothing propagates to the Window or the loop.
C5_HookFailureSwallowed ==
    Pass =>
      \A r \in Renders :
        LET e == tick.log[r[1]].trans[r[2]]
        IN  e.fate = "hook" =>
              /\ tick.log[r[1]].exc = "none"
              /\ tick.exc = "none"
              /\ pc # "crashed"
              /\ e.output = e.input
              /\ RenderedTransform(r).last_output = e.input
              /\ ~TransformDirty(RenderedTransform(r))

\* C6 (dirty clears after render): once Transform._draw has returned, every
\* Param of the Transform has dirty = FALSE and Transform.dirty is FALSE,
\* whether draw raised or not and whichever Param's slider had moved.
C6_DirtyClearsAfterRender ==
    Pass =>
      \A r \in Renders :
        tick.log[r[1]].trans[r[2]].fate # "hook" =>
          /\ \A p \in 1..Len(RenderedTransform(r).params) :
                 ~RenderedTransform(r).params[p].dirty
          /\ ~TransformDirty(RenderedTransform(r))

\* C6's case: a tick rendered a Transform of two Params of which one had moved
\* and the other had not, and its draw raised
C6_Witness ==
    /\ tick.kind = "render"
    /\ \E r \in Renders :
         /\ tick.log[r[1]].trans[r[2]].fate = "draw"
         /\ tick.log[r[1]].trans[r[2]].was = <<TRUE, FALSE>>

-----------------------------------------------------------------------------
(* Properties of the assembly *)

\* every item is a bare Transform
AllBare(ts) == \A i \in 1..Len(ts) : IsTransform(ts[i])

\* every item is a Window (of Transforms)
AllWindows(ts) ==
    \A i \in 1..Len(ts) :
        /\ IsWindow(ts[i])
        /\ \A m \in 1..Len(ts[i].transforms) : IsTransform(ts[i].transforms[m])

Mixed(ts) == \E i, j \in 1..Len(ts) : IsWindow(ts[i]) /\ IsTransform(ts[j])

\* an item that is neither a Window nor a Transform
HasNonItem(ts) == \E i \in 1..Len(ts) : ~IsWindow(ts[i]) /\ ~IsTransform(ts[i])

\* a Window holding something that is no Transform
HasBadWindow(ts) ==
    \E i \in 1..Len(ts) :
        /\ IsWindow(ts[i])
        /\ \E m \in 1..Len(ts[i].transforms) : ~IsTransform(ts[i].transforms[m])

\* C8 (configuration errors fail fast): with a mixture of Windows and bare
\* Transforms, an item that is neither, or a Window holding a non-Transform,
\* run_pipe gets no further than its failure: no window or trackbar is ever
\* created, nothing is shown or rendered, and the loop is never entered.
C8_ConfigErrorsFailFast ==
    (Mixed(transforms) \/ HasNonItem(transforms) \/ HasBadWindow(transforms)) =>
      /\ pc \in {"start", "config_error"}
      /\ tick.kind \in {"none", "collect"}
      /\ trackbar = EmptyMap /\ tbmax = EmptyMap
      /\ visible = EmptyMap
      /\ shown = EmptyMap
      /\ \A w \in 1..Len(windows) :
           /\ windows[w].last_output = None
           /\ \A i \in 1..Len(windows[w].transforms) :
                windows[w].transforms[i].last_output = None

\* C8's case: run_pipe has failed on a mixture
C8_Witness ==
    /\ pc = "config_error"
    /\ tick.exc = "ValueError"
    /\ Mixed(transforms)
    /\ ~HasNonItem(transforms) /\ ~HasBadWindow(transforms)

\* the q-th Param of the j-th Transform of win carries a label that a Param of
\* an earlier Transform of win carries
Repeats(win, j, q) ==
    \E i \in 1..(j - 1) : \E p \in 1..Len(win.transforms[i].params) :
        win.transforms[i].params[p].label = win.transforms[j].params[q].label

\* the places <<j, q>> of win's repeated labels
RepeatsOf(win) ==
    {jq \in UNION {{<<j, q>> : q \in 1..Len(win.transforms[j].params)} :
                       j \in 1..Len(win.transforms)} :
        Repeats(win, jq[1], jq[2])}

\* jq comes before kr in scan order
Before(jq, kr) == jq[1] < kr[1] \/ (jq[1] = kr[1] /\ jq[2] < kr[2])

\* C9 (label collisions are per Window): check_dup_win_labels raises exactly
\* when some Window has two Transforms carrying the same label, and then names
\* the first such Window and its first repeated label in scan order; a label
\* shared by two different Windows makes no failure.
C9_LabelCollisionsPerWindow ==
    tick.kind = "validate" =>
      /\ tick.exc = "ValueError"
            <=> \E w \in 1..Len(windows) : RepeatsOf(windows[w]) # {}
      /\ tick.exc = "ValueError" =>
           /\ \A v \in 1..tick.at[1] : RepeatsOf(windows[v]) = {}
           /\ \E jq \in RepeatsOf(windows[tick.at[1] + 1]) :
                /\ \A kr \in RepeatsOf(windows[tick.at[1] + 1]) : ~Before(kr, jq)
                /\ windows[tick.at[1] + 1].transforms[jq[1]].params[jq[2]].label
                       = tick.at[2]
      /\ tick.exc # "ValueError" => pc = "build"

\* C9's case: the validation has passed two Windows that share a label
C9_Witness ==
    /\ tick.kind = "validate"
    /\ tick.exc = "none"
    /\ \E v, w \in 1..Len(windows) :
         /\ v < w
         /\ \E i \in 1..Len(windows[v].transforms), j \in 1..Len(windows[w].transforms) :
              \E p \in 1..Len(windows[v].transforms[i].params),
                 q \in 1..Len(windows[w].transforms[j].params) :
                  windows[v].transforms[i].params[p].label
                      = windows[w].transforms[j].params[q].label

-----------------------------------------------------------------------------
(* Properties of a Param *)

\* C10 (Param bound invariant): once constructed, and after every
\* update_value, value = max(min, adjust(pos)) with an adjust and
\* value = max(min, pos) without, so that value is never below min.
C10_ParamBound ==
    pc = "par_ready" =>
      /\ par.value = Max(par.min, IF par.adjust # "none"
                                  THEN ApplyAdjust(par.adjust, par.pos)
                                  ELSE par.pos)
      /\ par.value >= par.min


-----------------------------------------------------------------------------
(* Properties of Window.counter *)

\* how many of the first i Windows were constructed without a name
Unnamed(i) == Cardinality({j \in 1..i : tick.at[j] = ""})

\* C11 (counter monotonicity): the k-th Window constructed without a name is
\* named "Step k" and a Window constructed with a name bears that name; the
\* counter is one more than the number of Windows constructed without a name,
\* a construction with a name leaves it as it is, and no construction lowers
\* it.
C11_CounterMonotonicity ==
    /\ [](pc = "win_new" =>
            /\ \A i \in 1..Len(windows) :
                 windows[i].name = IF tick.at[i] = "" THEN StepName(Unnamed(i))
                                   ELSE tick.at[i]
            /\ counter = 1 + Unnamed(Len(windows)))
    /\ [][pc = "win_new" =>
            /\ counter' >= counter
            /\ (Len(tick'.at) > Len(tick.at) /\ tick'.at[Len(tick'.at)] # "")
                   => counter' = counter
         ]_vars

\* C11's case: unnamed, named, unnamed: "Step 1", "a", "Step 2"
C11_Witness ==
    /\ pc = "win_new"
    /\ Len(windows) = 3
    /\ tick.at = <<"", "a", "">>
    /\ windows[3].name = "Step 2"
    /\ counter = 3

-----------------------------------------------------------------------------
(* Properties of Window.dirty *)

\* the position the trackbar of Param p of Transform i of Window w reports
SliderOf(w, i, p) ==
    GetTrackbarPos(trackbar, windows[w].transforms[i].params[p].label,
                   windows[w].name)

\* the value update_value derives from position pos for Param q
Derived(q, pos) ==
    Max(IF q.adjust # "none" THEN ApplyAdjust(q.adjust, pos) ELSE pos, q.min)

\* C12 (full synchronization per tick): when a tick has called every
\* Window's dirty and no slider has moved since, every Param of every
\* Transform, those after the first dirty one included, has _pos equal to its
\* slider's position and the value derived from that position.
C12_FullSynchronization ==
    (tick.kind \in {"clean", "render"} /\ ~moved) =>
        \A w \in 1..Len(windows) :
          \A i \in 1..Len(windows[w].transforms) :
            \A p \in 1..Len(windows[w].transforms[i].params) :
              LET q == windows[w].transforms[i].params[p]
              IN  /\ q.pos = SliderOf(w, i, p)
                  /\ q.value = Derived(q, SliderOf(w, i, p))

\* Transform i of Window w owns a Param whose slider is not where the Param
\* last saw it
Changed(w, i) ==
    \E p \in 1..Len(windows[w].transforms[i].params) :
        SliderOf(w, i, p) # windows[w].transforms[i].params[p].pos

\* the 0-based index of the first such Transform of Window w, or -1
FirstChanged(w) ==
    IF \A i \in 1..Len(windows[w].transforms) : ~Changed(w, i) THEN -1
    ELSE (CHOOSE i \in 1..Len(windows[w].transforms) :
              Changed(w, i) /\ \A j \in 1..(i - 1) : ~Changed(w, j)) - 1

\* C13 (first dirty index): in every tick that polls the Windows, each
\* Window's dirty is the smallest index of a Transform owning a Param whose
\* slider position differs from the Param's _pos, and -1 when there is none;
\* a Window whose Transforms have no Params reports -1.
C13_FirstDirtyIndex ==
    [][(/\ pc = "running" /\ tick'.kind \in {"clean", "render"}
        /\ trackbar' = trackbar /\ visible' = visible /\ ~moved') =>
        /\ Len(tick'.dirty) = Len(windows)
        /\ \A w \in 1..Len(windows) :
             /\ tick'.dirty[w] = FirstChanged(w)
             /\ (\A i \in 1..Len(windows[w].transforms) :
                     Len(windows[w].transforms[i].params) = 0)
                    => tick'.dirty[w] = -1
      ]_vars

\* C13's case: a tick in which a Window's first Transform with a moved slider
\* is its second, after a Transform that has a Param of its own
C13_Witness ==
    /\ tick.kind = "render"
    /\ \E w \in 1..Len(windows) :
         /\ tick.dirty[w] = 1
         /\ Len(windows[w].transforms[1].params) > 0

\* C13's other case: a tick has polled a Window made of a parameterless
\* Transform while another Window was dirty
C13_WitnessBare ==
    /\ tick.kind = "render"
    /\ \E w \in 1..Len(windows) :
         /\ tick.dirty[w] = -1
         /\ Len(windows[w].transforms) > 0
         /\ \A i \in 1..Len(windows[w].transforms) :
                Len(windows[w].transforms[i].params) = 0

-----------------------------------------------------------------------------
(* Properties of the loop of run_pipe *)

\* the step is an iteration of the loop that got past both breaks
PollStep ==
    /\ pc = "running" /\ tick'.kind \in {"clean", "render"}
    /\ trackbar' = trackbar /\ visible' = visible /\ ~moved'

\* C14 (cooperative termination): an iteration whose poll reports the escape
\* key, or that finds no Window visible, ends run_pipe in that iteration with
\* nothing rendered and the windows destroyed; an iteration with a Window
\* visible and no escape key leaves run_pipe running; run_pipe leaves the
\* loop in no other way.
C14_CooperativeTermination ==
    [][/\ (pc = "running" /\ (tick'.kind = "escape"
                              \/ \A n \in DOMAIN visible : ~visible[n])) =>
            /\ pc' = "terminated"
            /\ windows' = windows /\ shown' = shown
            /\ trackbar' = EmptyMap
            /\ \A n \in DOMAIN visible' : ~visible'[n]
       /\ PollStep => (pc' = "running" /\ \E n \in DOMAIN visible : visible[n])
       /\ (pc = "running" /\ pc' # "running") =>
            (pc' = "terminated" /\ tick'.kind \in {"escape", "closed"})
      ]_vars

\* every Param of every Transform of every Window has dirty = d
AllDirtyFlags(d) ==
    \A w \in 1..Len(windows) :
      \A i \in 1..Len(windows[w].transforms) :
        \A p \in 1..Len(windows[w].transforms[i].params) :
            windows[w].transforms[i].params[p].dirty = d

\* C15 (initialization pass): every Param is dirty from its construction up
\* to the initial pass; when the loop is entered every Window has been
\* rendered once, in pipeline order and all its Transforms with it, Window 0
\* on a copy of img (None when there is no img) and each later Window on the
\* output of the one before it, every Window's last_output is the image its
\* render returned and no Param is dirty.
C15_InitializationPass ==
    /\ pc = "initial" => AllDirtyFlags(TRUE)
    /\ (pc = "running" /\ tick.kind = "initial") =>
         /\ Len(tick.log) = Len(windows)
         /\ tick.log[1].input = img
         /\ \A j \in 1..Len(windows) :
              /\ tick.log[j].w = j - 1
              /\ tick.log[j].exc = "none"
              /\ Len(tick.log[j].trans) = Len(windows[j].transforms)
              /\ \A m \in 1..Len(tick.log[j].trans) : tick.log[j].trans[m].i = m - 1
              /\ j > 1 => tick.log[j].input = tick.log[j - 1].output
              /\ windows[j].last_output = tick.log[j].output
              /\ IsImage(windows[j].last_output)
         /\ AllDirtyFlags(FALSE)

\* C15's case: the initial pass of three Windows, the first Transform having
\* been given None, has completed
C15_Witness ==
    /\ pc = "running" /\ tick.kind = "initial"
    /\ Len(windows) = 3
    /\ img = None
    /\ tick.log[2].input # tick.log[1].input

\* C16 (the input of Window 0): in every pass that starts at Window 0, the
\* initial pass and the ticks of offset 0 alike, Window 0 is given a copy of
\* img, and None when run_pipe was called without an image.
C16_SameInputEveryPass ==
    (Pass /\ tick.offset = 0) => tick.log[1].input = img

-----------------------------------------------------------------------------
(* Properties of the Window names *)

\* the Params whose trackbar is created under the key <<name, label>>, as
\* <<w, i, p>>: Param p of Transform i of Window w
ParamsAt(name, label) ==
    {wip \in {<<w, i, p>> : w \in 1..Len(windows), i \in 1..4, p \in 1..2} :
        /\ wip[2] <= Len(windows[wip[1]].transforms)
        /\ IsTransform(windows[wip[1]].transforms[wip[2]])
        /\ wip[3] <= Len(windows[wip[1]].transforms[wip[2]].params)
        /\ windows[wip[1]].name = name
        /\ windows[wip[1]].transforms[wip[2]].params[wip[3]].label = label}

\* C17 (Window names are unique): the Windows of a pipeline that
\* _collect_windows has assembled and check_dup_win_labels has passed bear
\* pairwise different names, so that no trackbar key (window name, label)
\* belongs to two Params.
C17_WindowNamesUnique ==
    (pc = "build" /\ tick.kind = "validate") =>
        /\ \A v, w \in 1..Len(windows) :
               v # w => windows[v].name # windows[w].name
        /\ \A w \in 1..Len(windows) :
             \A i \in 1..Len(windows[w].transforms) :
               \A p \in 1..Len(windows[w].transforms[i].params) :
                 Cardinality(ParamsAt(windows[w].name,
                     windows[w].transforms[i].params[p].label)) = 1

-----------------------------------------------------------------------------
(* Properties of the loop in the long run *)

\* a tick has found every Window clean and no slider has moved since: as long
\* as no slider moves, every later tick finds the same and renders nothing
Quiet == pc = "running" /\ tick.kind = "clean" /\ ~moved

\* C18 (convergence): once the sliders rest and the ticks render no more,
\* every Param's _pos is its slider's position and every Transform's last
\* render read the values that update_value derives from those positions.
C18_Convergence ==
    Quiet =>
        \A w \in 1..Len(windows) :
          \A i \in 1..Len(windows[w].transforms) :
            LET t == windows[w].transforms[i]
            IN  /\ Len(t.drawn_with) = Len(t.params)
                /\ \A p \in 1..Len(t.params) :
                     /\ t.params[p].pos = SliderOf(w, i, p)
                     /\ t.drawn_with[p] = Derived(t.params[p], SliderOf(w, i, p))


\* C19 (cache coherence): at the end of the initial pass and of every tick,
\* each Window after the first holds the last_output that its last completed
\* render produced from the last_output the Window before it holds now.
C19_CacheCoherence ==
    tick.kind \in {"initial", "clean", "render"} =>
        \A w \in 2..Len(windows) : windows[w].fed = windows[w - 1].last_output

-----------------------------------------------------------------------------
(* Properties of the first tick *)

\* the declaration puts the Param's start position on its slider
InRange(q) == 0 <= Max(q.min, q.default) /\ Max(q.min, q.default) <= q.max

\* every Param of Window w satisfies P(w, i, p)
InWindow(w, P(_, _, _)) ==
    \A i \in 1..Len(windows[w].transforms) :
      \A p \in 1..Len(windows[w].transforms[i].params) : P(w, i, p)

AtSlider(w, i, p) == windows[w].transforms[i].params[p].pos = SliderOf(w, i, p)
DeclInRange(w, i, p) == InRange(windows[w].transforms[i].params[p])
OwnSlider(w, i, p) ==
    Cardinality(ParamsAt(windows[w].name,
                         windows[w].transforms[i].params[p].label)) = 1

\* the loop has been entered and no slider has been moved yet
Untouched == pc = "running" /\ tick.kind = "initial" /\ ~moved

====
